---- MODULE Spec2Model ----
(***************************************************************************)
(* MCDM optimisation dashboard (src/hello.jsx): the AHP engine, the        *)
(* allocation heuristic, the strategy orchestrator and the session state   *)
(* of the React component MCDM_Optimization_Final.                         *)
(*                                                                         *)
(* Numbers.  JavaScript numbers are modelled as exact rationals.  The      *)
(* dataset, the pairwise matrix and the AHP weights are rationals over     *)
(* machine integers (records [n, d], d > 0, lowest terms).  The values of  *)
(* the heuristic and of the objective totals exceed 2^31 on the default    *)
(* dataset, so they are rationals over arbitrary-precision integers        *)
(* (sign and little-endian limbs in base 10000).  NaN and the infinities   *)
(* are explicit values where the code can produce them: x / 0, arithmetic  *)
(* on undefined, toFixed of such a value.                                  *)
(*                                                                         *)
(* Specifications.  Spec: a session of the component.  SpecPW: a session   *)
(* of edits of the pairwise matrix.  SpecCSV: a session of imports and     *)
(* edits of the dataset.  SpecRuns: runs on imported datasets.  SpecTimed: *)
(* a session of runs whose timer fires (weak fairness of the callback).    *)
(* SpecLP, SpecLPUnequal: direct calls of solveLPHeuristic.  SpecAHP:      *)
(* direct calls of computeAHPFromMatrix.                                   *)
(***************************************************************************)
EXTENDS Integers, Sequences, FiniteSets, TLC

\* ---------------------------------------------------------------- rationals
Abs(x) == IF x < 0 THEN -x ELSE x

RECURSIVE Gcd(_, _)
Gcd(a, b) == IF b = 0 THEN a ELSE Gcd(b, a % b)

\* n/d in lowest terms with a positive denominator (d # 0)
Q(n, d) ==
  LET g == Gcd(Abs(n), Abs(d))
      s == IF d < 0 THEN -1 ELSE 1
  IN [n |-> s * (n \div g), d |-> s * (d \div g)]

QInt(k) == [n |-> k, d |-> 1]
\* sums over the least common denominator and products with cross-cancellation
\* keep the intermediate values small
QAdd(a, b) ==
  LET g == Gcd(a.d, b.d)
  IN Q(a.n * (b.d \div g) + b.n * (a.d \div g), (a.d \div g) * b.d)
QNeg(a) == [n |-> -a.n, d |-> a.d]
QSub(a, b) == QAdd(a, QNeg(b))
QMul(a, b) ==
  LET g1 == Gcd(Abs(a.n), b.d)
      g2 == Gcd(Abs(b.n), a.d)
  IN IF a.n = 0 \/ b.n = 0 THEN [n |-> 0, d |-> 1]
     ELSE [n |-> (a.n \div g1) * (b.n \div g2), d |-> (a.d \div g2) * (b.d \div g1)]
\* a / b for b # 0
QDiv(a, b) == QMul(a, IF b.n < 0 THEN [n |-> -b.d, d |-> -b.n] ELSE [n |-> b.d, d |-> b.n])
QLt(a, b) == a.n * b.d < b.n * a.d
QLe(a, b) == a.n * b.d <= b.n * a.d
QZero == QInt(0)
QOne == QInt(1)

RECURSIVE QSum(_)
QSum(s) == IF s = <<>> THEN QZero ELSE QAdd(Head(s), QSum(Tail(s)))

\* ------------------------------------------------- arbitrary-precision integers
Base == 100 * 100

RECURSIVE MagStrip(_)
MagStrip(m) ==
  IF m = <<>> THEN m
  ELSE IF m[Len(m)] = 0 THEN MagStrip(SubSeq(m, 1, Len(m) - 1)) ELSE m

RECURSIVE MagFromNat(_)
MagFromNat(k) == IF k = 0 THEN <<>> ELSE <<k % Base>> \o MagFromNat(k \div Base)

Limb(m, i) == IF i <= Len(m) THEN m[i] ELSE 0

RECURSIVE MagAddC(_, _, _, _)
MagAddC(a, b, i, c) ==
  IF i > Len(a) /\ i > Len(b) THEN (IF c = 0 THEN <<>> ELSE <<c>>)
  ELSE LET s == Limb(a, i) + Limb(b, i) + c
       IN <<s % Base>> \o MagAddC(a, b, i + 1, s \div Base)

MagAdd(a, b) == MagAddC(a, b, 1, 0)

\* a - b for a >= b
RECURSIVE MagSubC(_, _, _, _)
MagSubC(a, b, i, c) ==
  IF i > Len(a) THEN <<>>
  ELSE LET s == a[i] - Limb(b, i) - c
       IN IF s < 0 THEN <<s + Base>> \o MagSubC(a, b, i + 1, 1)
          ELSE <<s>> \o MagSubC(a, b, i + 1, 0)

MagSub(a, b) == MagStrip(MagSubC(a, b, 1, 0))

\* -1, 0, 1 as a < b, a = b, a > b
RECURSIVE MagCmpAt(_, _, _)
MagCmpAt(a, b, i) ==
  IF i = 0 THEN 0
  ELSE IF a[i] < b[i] THEN -1
  ELSE IF a[i] > b[i] THEN 1
  ELSE MagCmpAt(a, b, i - 1)

MagCmp(a, b) ==
  IF Len(a) < Len(b) THEN -1
  ELSE IF Len(a) > Len(b) THEN 1
  ELSE MagCmpAt(a, b, Len(a))

\* a * b: the limbs of the product are the carries of the convolution of the
\* limbs (each sum stays below 2^31 for operands of at most 20 limbs)
RECURSIVE ConvSum(_, _, _, _, _)
ConvSum(a, b, k, i, hi) ==
  IF i > hi THEN 0 ELSE a[i] * b[k + 1 - i] + ConvSum(a, b, k, i + 1, hi)

RECURSIVE MagCarry(_, _, _, _, _)
MagCarry(a, b, k, last, c) ==
  IF k > last THEN (IF c = 0 THEN <<>> ELSE <<c>>)
  ELSE LET lo == IF k > Len(b) THEN k + 1 - Len(b) ELSE 1
           hi == IF k > Len(a) THEN Len(a) ELSE k
           s == ConvSum(a, b, k, lo, hi) + c
       IN <<s % Base>> \o MagCarry(a, b, k + 1, last, s \div Base)

MagMul(a, b) ==
  IF a = <<>> \/ b = <<>> THEN <<>>
  ELSE MagStrip(MagCarry(a, b, 1, Len(a) + Len(b) - 1, 0))

\* signed: s in {-1, 0, 1}, m the magnitude (<<>> iff s = 0)
Big(s, m) == IF m = <<>> THEN [s |-> 0, m |-> <<>>] ELSE [s |-> s, m |-> m]
BInt(k) == Big(IF k < 0 THEN -1 ELSE 1, MagFromNat(Abs(k)))
BZero == BInt(0)
BOne == BInt(1)
BNeg(a) == Big(-a.s, a.m)
BAbs(a) == Big(1, a.m)
BAdd(a, b) ==
  IF a.s = 0 THEN b
  ELSE IF b.s = 0 THEN a
  ELSE IF a.s = b.s THEN Big(a.s, MagAdd(a.m, b.m))
  ELSE LET c == MagCmp(a.m, b.m)
       IN IF c = 0 THEN BZero
          ELSE IF c > 0 THEN Big(a.s, MagSub(a.m, b.m))
          ELSE Big(b.s, MagSub(b.m, a.m))
BSub(a, b) == BAdd(a, BNeg(b))
BMul(a, b) == Big(a.s * b.s, MagMul(a.m, b.m))
\* -1, 0, 1 as a < b, a = b, a > b
BCmp(a, b) ==
  IF a.s # b.s THEN (IF a.s < b.s THEN -1 ELSE 1)
  ELSE IF a.s = 0 THEN 0
  ELSE a.s * MagCmp(a.m, b.m)
BLe(a, b) == BCmp(a, b) <= 0
BLt(a, b) == BCmp(a, b) < 0

RECURSIVE BPow(_, _)
BPow(a, e) == IF e = 0 THEN BOne ELSE BMul(a, BPow(a, e - 1))

\* the value of a magnitude as a machine integer (for magnitudes below 2^31)
RECURSIVE MagToNat(_)
MagToNat(m) == IF m = <<>> THEN 0 ELSE m[1] + Base * MagToNat(Tail(m))
BToInt(a) == a.s * MagToNat(a.m)

\* ------------------------------------- rationals over arbitrary-precision integers
\* [n, d] with d > 0, not reduced: values are compared with RCmp, not with =
RInt(k) == [n |-> BInt(k), d |-> BOne]
RFromQ(q) == [n |-> BInt(q.n), d |-> BInt(q.d)]
RNeg(a) == [n |-> BNeg(a.n), d |-> a.d]
RAdd(a, b) ==
  IF a.d = b.d THEN [n |-> BAdd(a.n, b.n), d |-> a.d]
  ELSE [n |-> BAdd(BMul(a.n, b.d), BMul(b.n, a.d)), d |-> BMul(a.d, b.d)]
RSub(a, b) == RAdd(a, RNeg(b))
RMul(a, b) == [n |-> BMul(a.n, b.n), d |-> BMul(a.d, b.d)]
\* a / b for b # 0
RDiv(a, b) ==
  LET sb == BInt(b.n.s)
  IN IF a.d = b.d THEN [n |-> BMul(a.n, sb), d |-> BAbs(b.n)]
     ELSE [n |-> BMul(BMul(a.n, b.d), sb), d |-> BMul(a.d, BAbs(b.n))]
\* -1, 0, 1 as a < b, a = b, a > b
RCmp(a, b) ==
  IF a.d = b.d THEN BCmp(a.n, b.n) ELSE BCmp(BMul(a.n, b.d), BMul(b.n, a.d))
REq(a, b) == RCmp(a, b) = 0
RAbs(a) == [n |-> BAbs(a.n), d |-> a.d]
RMax(a, b) == IF RCmp(a, b) < 0 THEN b ELSE a
RPow(a, e) == [n |-> BPow(a.n, e), d |-> BPow(a.d, e)]
RZero == RInt(0)
ROne == RInt(1)

RECURSIVE RSum(_)
RSum(s) == IF s = <<>> THEN RZero ELSE RAdd(Head(s), RSum(Tail(s)))

\* floor of a machine rational; Math.round rounds half up: floor(x + 1/2)
QFloor(q) == q.n \div q.d
QRound(q) == (2 * q.n + q.d) \div (2 * q.d)

\* ---------------------------------------------------------------- JS values
\* null and undefined are the empty tuple, a present value v is <<v>>
Null == <<>>
Some(v) == <<v>>
Get(o) == o[1]

\* a number that may be NaN or infinite: a finite value, NaN, or Infinity with a sign
Fin(v) == [k |-> "fin", v |-> v]
NaN == [k |-> "NaN", v |-> RZero]
Inf(sign) == [k |-> "inf", v |-> RInt(sign)]

\* a / b for finite a and b as JavaScript divides: x / 0 is NaN or an infinity
jsDiv(a, b) ==
  IF b.n.s # 0 THEN Fin(RDiv(a, b))
  ELSE IF a.n.s = 0 THEN NaN
  ELSE Inf(a.n.s)

\* ------------------------------------------------------- allocation heuristic
\* src/hello.jsx:85
cumCapacity ==
  <<2700000, 5200000, 7900000, 10700000, 13500000, 16200000,
    19000000, 22000000, 24800000, 27800000, 30600000, 32700000>>

\* Math.max(...coeffs.map(c => Math.abs(c)), 1)
RECURSIVE maxAbsFrom(_, _)
maxAbsFrom(coeffs, i) ==
  IF i > Len(coeffs) THEN ROne ELSE RMax(RAbs(coeffs[i]), maxAbsFrom(coeffs, i + 1))

maxAbs(coeffs) == maxAbsFrom(coeffs, 1)

\* (coeffs[i] / maxAbs + 1) / 2
rankOf(c, mx) == RDiv(RAdd(RDiv(c, mx), ROne), RInt(2))

\* The value x of one period is a machine rational (kind "q"), a rational over
\* big integers (kind "val") or, for the aggressive strategy,
\* lb + span * rank^0.8 (kind "pow", r4 = rank^4), which is irrational in
\* general: it is kept symbolic and only compared with rationals,
\* u^(4/5) < y  iff  y > 0 and u^4 < y^5  for u >= 0.
XQ(q) == [kind |-> "q", q |-> q]
XVal(v) == [kind |-> "val", v |-> v]
XPow(lb, span, rank) == [kind |-> "pow", lb |-> lb, span |-> span, r4 |-> RPow(rank, 4)]

BPow5(b) == LET b2 == BMul(b, b) b4 == BMul(b2, b2) IN BMul(b4, b)

\* -1, 0, 1 as x < t, x = t, x > t, for a machine rational t
XCmp(x, t) ==
  IF x.kind = "q" THEN (IF QLt(x.q, t) THEN -1 ELSE IF QLt(t, x.q) THEN 1 ELSE 0)
  ELSE IF x.kind = "val" THEN RCmp(x.v, RFromQ(t))
  ELSE IF x.span.n = 0 THEN (IF QLt(x.lb, t) THEN -1 ELSE IF QLt(t, x.lb) THEN 1 ELSE 0)
  ELSE LET y == QDiv(QSub(t, x.lb), x.span)
           c == IF y.n < 0 THEN 1
                ELSE BCmp(BMul(x.r4.n, BPow5(BInt(y.d))), BMul(BPow5(BInt(y.n)), x.r4.d))
       IN (IF x.span.n < 0 THEN -1 ELSE 1) * c

\* variant of strategyTarget in which the conservative strategy keeps its
\* fraction when minimizing
strategyTargetKeepsConservative(lb, ub, rank, options) ==
  LET span == QSub(ub, lb)
      lin(f) == XVal(RAdd(RFromQ(lb), RMul(RFromQ(span), f)))
  IN IF options.strategy = "conservative" THEN lin(RFromQ(Q(15, 100)))
     ELSE IF ~options.maximize THEN lin(RSub(ROne, rank))
     ELSE IF options.strategy = "aggressive" THEN XPow(lb, span, rank)
     ELSE lin(RAdd(RFromQ(Q(35, 100)), RMul(RFromQ(Q(5, 10)), rank)))

\* x = lb + (ub - lb) * f(rank) of the strategy, then the minimize override
\* (src/hello.jsx:97-110); 0.15, 0.35 and 0.5 are the decimal literals
strategyTarget(lb, ub, rank, options) ==
  LET span == QSub(ub, lb)
      lin(f) == XVal(RAdd(RFromQ(lb), RMul(RFromQ(span), f)))
  IN IF ~options.maximize THEN lin(RSub(ROne, rank))
     ELSE IF options.strategy = "aggressive" THEN XPow(lb, span, rank)
     ELSE IF options.strategy = "conservative" THEN lin(RFromQ(Q(15, 100)))
     ELSE lin(RAdd(RFromQ(Q(35, 100)), RMul(RFromQ(Q(5, 10)), rank)))

\* the largest k in lo..hi with k - 1/2 <= x
RECURSIVE roundSearch(_, _, _)
roundSearch(x, lo, hi) ==
  IF lo >= hi THEN lo
  ELSE LET mid == (lo + hi + 1) \div 2
       IN IF XCmp(x, Q(2 * mid - 1, 2)) >= 0 THEN roundSearch(x, mid, hi)
          ELSE roundSearch(x, lo, mid - 1)

\* Math.round(x) = floor(x + 1/2), for lo <= x <= hi
mathRound(x, lo, hi) ==
  IF x.kind = "q" THEN QRound(x.q) ELSE roundSearch(x, QFloor(lo), QFloor(hi) + 1)

\* enforce cumulative (src/hello.jsx:112-116): room is cumCapacity[i] - cumulative
ceilingClamp(x, lb, room) ==
  IF XCmp(x, room) > 0 THEN XQ(IF QLt(lb, room) THEN room ELSE lb) ELSE x

\* cumCapacity[i] is undefined past 12 periods and a comparison with
\* undefined is false
enforceCumulative(x, lb, i, cumulative) ==
  IF i <= Len(cumCapacity) THEN ceilingClamp(x, lb, QInt(cumCapacity[i] - cumulative))
  ELSE x

\* Math.max(lb, x) and Math.min(ub, x) (src/hello.jsx:118-119)
mathMax(lb, x) == IF XCmp(x, lb) < 0 THEN XQ(lb) ELSE x
mathMin(ub, x) == IF XCmp(x, ub) > 0 THEN XQ(ub) ELSE x

\* one period of the loop (src/hello.jsx:90-122): the allocation of period i
\* given the running total
periodAllocation(coeffs, lower, upper, options, mx, i, cumulative) ==
  mathRound(
    mathMin(upper[i],
      mathMax(lower[i],
        enforceCumulative(
          strategyTarget(lower[i], upper[i], rankOf(coeffs[i], mx), options),
          lower[i], i, cumulative))),
    lower[i], upper[i])

RECURSIVE lpLoop(_, _, _, _, _, _, _, _)
\* solution.push(x); cumulative += x
lpPush(coeffs, lower, upper, options, mx, i, solution, cumulative, x) ==
  lpLoop(coeffs, lower, upper, options, mx, i + 1, Append(solution, x), cumulative + x)

\* lower[i] or upper[i] is undefined past the end of its array
missingBound(lower, upper, i) == i > Len(lower) \/ i > Len(upper)

\* for (let i = 0; i < n; i++), where i - 1 = Len(solution) counts from 1.
\* With an undefined bound, x, Math.round(x) and cumulative are NaN
\* (src/hello.jsx:99-121), in that period and in every later one: solution
\* holds the entries before them
lpLoop(coeffs, lower, upper, options, mx, i, solution, cumulative) ==
  IF Len(solution) >= Len(coeffs) THEN solution
  ELSE IF missingBound(lower, upper, Len(solution) + 1) THEN solution
  ELSE lpPush(coeffs, lower, upper, options, mx, i, solution, cumulative,
              periodAllocation(coeffs, lower, upper, options, mx, i, cumulative))

\* sum(coeffs[i] * x[i])
RECURSIVE dot(_, _, _)
dot(coeffs, x, i) ==
  IF i > Len(x) THEN RZero
  ELSE RAdd(RMul(coeffs[i], RInt(x[i])), dot(coeffs, x, i + 1))

\* src/hello.jsx:124-125; nan counts the entries of the returned array after
\* those of solution, which are NaN, and a sum over a NaN entry is NaN
lpReturn(coeffs, solution) ==
  [solution |-> solution,
   nan |-> Len(coeffs) - Len(solution),
   objective |-> IF Len(solution) < Len(coeffs) THEN NaN ELSE Fin(dot(coeffs, solution, 1))]

\* src/hello.jsx:78-126
solveLPHeuristic(coeffs, lower, upper, options) ==
  lpReturn(coeffs, lpLoop(coeffs, lower, upper, options, maxAbs(coeffs), 1, <<>>, 0))

\* floor(n / d) for big integers n >= 0, d > 0: doubling, then bisection
RECURSIVE floorUp(_, _, _)
floorUp(n, d, hi) ==
  IF BLt(n, BMul(BInt(hi), d)) THEN hi ELSE floorUp(n, d, 2 * hi)

RECURSIVE floorIn(_, _, _, _)
floorIn(n, d, lo, hi) ==
  IF lo + 1 >= hi THEN lo
  ELSE LET mid == (lo + hi) \div 2
       IN IF BLe(BMul(BInt(mid), d), n) THEN floorIn(n, d, mid, hi)
          ELSE floorIn(n, d, lo, mid)

bigFloor(n, d) == LET hi == floorUp(n, d, 1) IN floorIn(n, d, hi \div 2, hi)

RECURSIVE pow10(_)
pow10(e) == IF e = 0 THEN 1 ELSE 10 * pow10(e - 1)

\* Number.prototype.toFixed(digits) of a finite v: the sign "-" for v < 0 and
\* the integer nearest to |v| * 10^digits, the larger one on a tie; "-0.00"
\* is [neg |-> TRUE, units |-> 0]
toFixed(v, digits) ==
  LET a == RAbs(v)
      twoN == BMul(BMul(a.n, BInt(2)), BInt(pow10(digits)))
  IN [neg |-> v.n.s < 0,
      units |-> bigFloor(BAdd(twoN, a.d), BMul(a.d, BInt(2))),
      digits |-> digits]

\* the string literal '0.00'
zeroFixed == [neg |-> FALSE, units |-> 0, digits |-> 2]

\* the texts toFixed gives for a value that is no finite number: "NaN" has
\* units -1, "Infinity" and "-Infinity" have units -2; they have no digits
nanFixed == [neg |-> FALSE, units |-> -1, digits |-> 0]
infFixed(sign) == [neg |-> sign < 0, units |-> -2, digits |-> 0]

\* x.toFixed(digits) for a number x that may be NaN or infinite
jsToFixed(x, digits) ==
  IF x.k = "fin" THEN toFixed(x.v, digits)
  ELSE IF x.k = "NaN" THEN nanFixed
  ELSE infFixed(x.v.n.s)

\* x * k for a finite k > 0
jsTimes(x, k) == IF x.k = "fin" THEN Fin(RMul(x.v, k)) ELSE x

\* ------------------------------------------------------------------ AHP engine
\* x || 1 for a number x
orOne(q) == IF q.n = 0 THEN QOne ELSE q

\* src/hello.jsx:66-67
RI_table(n) ==
  IF n = 1 \/ n = 2 THEN QZero
  ELSE IF n = 3 THEN Q(58, 100)
  ELSE IF n = 4 THEN Q(90, 100)
  ELSE IF n = 5 THEN Q(112, 100)
  ELSE Q(124, 100)

\* NaN among the machine rationals: the record 0/0, which no operator above
\* returns; undefined is NaN in arithmetic
qNaN == [n |-> 0, d |-> 0]
isNaN(q) == q.d = 0

\* matrix[i][j], undefined past the end of the row
entry(matrix, i, j) == IF j <= Len(matrix[i]) THEN matrix[i][j] ELSE qNaN

\* a sum and a quotient (by b # 0) of numbers that may be NaN
sumOrNaN(s) == IF \E i \in 1..Len(s) : isNaN(s[i]) THEN qNaN ELSE QSum(s)
quotOrNaN(a, b) == IF isNaN(a) \/ isNaN(b) THEN qNaN ELSE QDiv(a, b)

\* src/hello.jsx:55-57
columnSums(matrix) ==
  [j \in 1..Len(matrix) |-> sumOrNaN([i \in 1..Len(matrix) |-> entry(matrix, i, j)])]

\* colSums[j] || 1, where colSums[j] is undefined for j past n
colSumOrOne(colSums, j) == IF j <= Len(colSums) THEN orOne(colSums[j]) ELSE QOne

\* src/hello.jsx:59-60: normalize by column, then row averages
rowAverages(matrix, colSums) ==
  [i \in 1..Len(matrix) |->
     quotOrNaN(sumOrNaN([j \in 1..Len(matrix[i]) |->
                           quotOrNaN(matrix[i][j], colSumOrOne(colSums, j))]),
               QInt(Len(matrix)))]

\* val * weights[j] is NaN for a NaN val and for a NaN or undefined weights[j]
rowHasNaN(row, weights) ==
  \E j \in 1..Len(row) : isNaN(row[j]) \/ j > Len(weights) \/ isNaN(weights[j])

\* src/hello.jsx:63: one entry of lambdaVec, for a row without NaN
lambdaOf(row, weights, wi) ==
  RDiv(RSum([j \in 1..Len(row) |-> RFromQ(QMul(row[j], weights[j]))]), RFromQ(orOne(wi)))

\* src/hello.jsx:63-64
lambdaMaxOf(matrix, weights) ==
  IF \E i \in 1..Len(matrix) : rowHasNaN(matrix[i], weights) THEN NaN
  ELSE Fin(RDiv(RSum([i \in 1..Len(matrix) |-> lambdaOf(matrix[i], weights, weights[i])]),
                RInt(Len(matrix))))

\* src/hello.jsx:68: RI ? CI / RI : 0
ratioCR(CI, RI) ==
  IF RI.n = 0 THEN Fin(RZero)
  ELSE IF CI.k = "fin" THEN Fin(RDiv(CI.v, RFromQ(RI)))
  ELSE CI

\* src/hello.jsx:70-74
ahpRecord(weights, total, lambdaMax, CI, RI) ==
  [weights |-> [i \in 1..Len(weights) |-> quotOrNaN(weights[i], total)],
   lambdaMax |-> lambdaMax, CI |-> CI, CR |-> ratioCR(CI, RI)]

\* src/hello.jsx:65: (lambdaMax - n) / (n - 1)
consistencyIndex(n, lambdaMax) ==
  IF lambdaMax.k = "fin" THEN jsDiv(RSub(lambdaMax.v, RInt(n)), RInt(n - 1)) ELSE NaN

\* src/hello.jsx:65-71
ahpConsistency(n, weights, lambdaMax) ==
  ahpRecord(weights, orOne(sumOrNaN(weights)), lambdaMax,
            consistencyIndex(n, lambdaMax), RI_table(n))

ahpFromWeights(matrix, weights) ==
  ahpConsistency(Len(matrix), weights, lambdaMaxOf(matrix, weights))

\* src/hello.jsx:53-75, for a matrix of n rows that are arrays of numbers,
\* NaN included, of any lengths
computeAHPFromMatrix(matrix) ==
  ahpFromWeights(matrix, rowAverages(matrix, columnSums(matrix)))

\* ------------------------------------------------------------------- constants
\* src/hello.jsx:31
MONTHS == <<"Jan", "Feb", "Mar", "Apr", "May", "Jun", "Jul", "Aug", "Sep", "Oct", "Nov", "Dec">>

Ints(s) == [i \in 1..Len(s) |-> QInt(s[i])]
Bigs(s) == [i \in 1..Len(s) |-> RFromQ(s[i])]

\* src/hello.jsx:33-39
DEFAULT_DATA ==
  [turnover |-> Ints(<<1450, 1320, 1167, 1820, 1097, 1085, 1094, 1030, 1007, 1203, 1119, 928>>),
   cost |-> Ints(<<80, 75, 70, 65, 60, 55, 50, 45, 40, 35, 30, 25>>),
   productivity |-> Ints(<<9676, 10924, 12131, 11081, 11625, 11499,
                           11082, 11127, 10943, 13441, 12180, 10342>>),
   orders |-> Ints(<<2548556, 2550855, 2735389, 2503787, 2750643, 2624632,
                     2563748, 2563748, 2451276, 2992994, 2761731, 2258991>>),
   capacity |-> Ints(<<2700000, 2500000, 2700000, 2800000, 2800000, 2700000,
                       2800000, 3000000, 2800000, 3000000, 2800000, 2100000>>)]

\* src/hello.jsx:41
DEFAULT_PAIRWISE ==
  << <<QInt(1), Q(2, 10), Q(333, 1000)>>,
     <<QInt(5), QInt(1), QInt(5)>>,
     <<QInt(3), Q(2, 10), QInt(1)>> >>

\* src/hello.jsx:260: [0.132, 0.612, 0.256]
fallbackWeights == <<Q(132, 1000), Q(612, 1000), Q(256, 1000)>>

Modes == {"turnover", "cost", "productivity", "multiObjective"}

\* ------------------------------------------------------- strategy orchestrator
\* src/hello.jsx:129-137
computeObjectives(turnover, cost, productivity, x) ==
  [Z1 |-> dot(Bigs(turnover), x, 1),
   Z2 |-> dot(Bigs(cost), x, 1),
   Z3 |-> dot(Bigs(productivity), x, 1)]

\* ((actual - baseline) / baseline * 100).toFixed(2)
percentFixed(gain, baseline) == jsToFixed(jsTimes(jsDiv(gain, baseline), RInt(100)), 2)

\* variant of improvement without the test of the baseline
improvementUnguarded(gain, baseline) == percentFixed(gain, baseline)

\* baseline ? ((actual - baseline) / baseline * 100).toFixed(2) : '0.00'
\* (src/hello.jsx:315-317), gain = actual - baseline (cost: baseline - actual)
improvement(gain, baseline) ==
  IF baseline.n.s = 0 THEN zeroFixed ELSE percentFixed(gain, baseline)

\* src/hello.jsx:272-307: the coefficients and options handed to the heuristic
lpInput(mode, d, weights) ==
  IF mode = "turnover" THEN
    [coeffs |-> Bigs(d.turnover), maximize |-> TRUE, strategy |-> "aggressive"]
  ELSE IF mode = "cost" THEN
    [coeffs |-> [i \in 1..Len(d.cost) |-> RNeg(RFromQ(d.cost[i]))],
     maximize |-> FALSE, strategy |-> "conservative"]
  ELSE IF mode = "productivity" THEN
    [coeffs |-> Bigs(d.productivity), maximize |-> TRUE, strategy |-> "balanced"]
  ELSE
    [coeffs |-> [i \in 1..Len(d.turnover) |->
                   RAdd(RSub(RMul(RMul(RFromQ(weights[1]), RFromQ(d.turnover[i])), RInt(1000)),
                             RMul(RMul(RFromQ(weights[2]), RFromQ(d.cost[i])), RInt(1000))),
                        RMul(RFromQ(weights[3]), RFromQ(d.productivity[i])))],
     maximize |-> TRUE, strategy |-> "balanced"]

lpSolve(in, d) ==
  solveLPHeuristic(in.coeffs, d.orders, d.capacity,
                   [maximize |-> in.maximize, strategy |-> in.strategy])

\* src/hello.jsx:310-313: baseline = meeting orders
baselineOf(d) ==
  [Z1 |-> RSum([i \in 1..Len(d.orders) |-> RMul(RFromQ(d.turnover[i]), RFromQ(d.orders[i]))]),
   Z2 |-> RSum([i \in 1..Len(d.orders) |-> RMul(RFromQ(d.cost[i]), RFromQ(d.orders[i]))]),
   Z3 |-> RSum([i \in 1..Len(d.orders) |-> RMul(RFromQ(d.productivity[i]), RFromQ(d.orders[i]))])]

\* variant of improvementsOf that reports the rise of the cost
improvementsOfCostRise(Z, baseline) ==
  [turnover |-> improvement(RSub(RMul(Z.Z1, RInt(1000)), RMul(baseline.Z1, RInt(1000))),
                            RMul(baseline.Z1, RInt(1000))),
   cost |-> improvement(RSub(Z.Z2, baseline.Z2), baseline.Z2),
   productivity |-> improvement(RSub(Z.Z3, baseline.Z3), baseline.Z3)]

\* src/hello.jsx:314-318
improvementsOf(Z, baseline) ==
  [turnover |-> improvement(RSub(RMul(Z.Z1, RInt(1000)), RMul(baseline.Z1, RInt(1000))),
                            RMul(baseline.Z1, RInt(1000))),
   cost |-> improvement(RSub(baseline.Z2, Z.Z2), baseline.Z2),
   productivity |-> improvement(RSub(Z.Z3, baseline.Z3), baseline.Z3)]

\* src/hello.jsx:319-327
multiResult(solution, weights, Z, baseline) ==
  [solution |-> solution,
   turnoverVal |-> RMul(Z.Z1, RInt(1000)),
   costVal |-> Z.Z2,
   productivityVal |-> Z.Z3,
   weights |-> Some(weights),
   improvements |-> Some(improvementsOf(Z, baseline))]

\* variant of singleResult that reports the objective of the heuristic as the
\* cost of a cost run
singleResultFromObjective(mode, d, lp) ==
  [solution |-> lp.solution,
   turnoverVal |-> RMul(IF mode = "turnover" THEN lp.objective.v
                        ELSE dot(Bigs(d.turnover), lp.solution, 1), RInt(1000)),
   costVal |-> IF mode = "cost" THEN lp.objective.v ELSE dot(Bigs(d.cost), lp.solution, 1),
   productivityVal |-> IF mode = "productivity" THEN lp.objective.v
                       ELSE dot(Bigs(d.productivity), lp.solution, 1),
   weights |-> Null,
   improvements |-> Null]

\* src/hello.jsx:274-296: the result of a single-objective run
singleResult(mode, d, lp) ==
  [solution |-> lp.solution,
   turnoverVal |-> RMul(IF mode = "turnover" THEN lp.objective.v
                        ELSE dot(Bigs(d.turnover), lp.solution, 1), RInt(1000)),
   costVal |-> dot(Bigs(d.cost), lp.solution, 1),
   productivityVal |-> IF mode = "productivity" THEN lp.objective.v
                       ELSE dot(Bigs(d.productivity), lp.solution, 1),
   weights |-> Null,
   improvements |-> Null]

resultOf(mode, d, weights, lp) ==
  IF mode = "multiObjective"
  THEN multiResult(lp.solution, weights,
                   computeObjectives(d.turnover, d.cost, d.productivity, lp.solution),
                   baselineOf(d))
  ELSE singleResult(mode, d, lp)

\* the result object built by one run (src/hello.jsx:266-328) from the dataset
\* d and the weights read by the run; null for a mode that is no strategy
strategyResult(mode, d, weights) ==
  IF mode \in Modes THEN Some(resultOf(mode, d, weights, lpSolve(lpInput(mode, d, weights), d)))
  ELSE Null

\* ------------------------------------------------------------------- strings
\* parseFloat on the strings that are typed or uploaded in this model; the
\* empty string and text without a leading number give NaN
parseFloat(s) ==
  CASE s = "2" -> Fin(QInt(2))
    [] s = "-2" -> Fin(QInt(-2))
    [] s = "0.5" -> Fin(Q(1, 2))
    [] s = "0" -> Fin(QZero)
    [] s = "2400000" -> Fin(QInt(2400000))
    [] s = "2900000" -> Fin(QInt(2900000))
    [] s = "12.5kg" -> Fin(Q(25, 2))
    [] OTHER -> NaN

\* x || d for the number x returned by parseFloat
orElse(x, d) == IF x.k = "NaN" THEN d ELSE IF x.v.n = 0 THEN d ELSE x.v

\* String.prototype.toLowerCase on the header cells of CsvFiles
toLowerCase(s) ==
  CASE s = "Month" -> "month"
    [] s = "Orders" -> "orders"
    [] s = "Capacity" -> "capacity"
    [] s = "Cost" -> "cost"
    [] OTHER -> s

\* head.includes(word) for a lower-case header cell and the words of
\* src/hello.jsx:212-216
includes(head, word) ==
  \/ head = word
  \/ head = "orders" /\ word = "order"
  \/ head = "capacity" /\ word = "cap"
  \/ head = "productivity" /\ word = "product"
  \/ head = "sales revenue" /\ word = "sales"
  \/ head = "product cost" /\ word \in {"product", "cost"}

Categories == <<"turnover", "cost", "productivity", "orders", "capacity">>

\* src/hello.jsx:212-216: the series a header cell writes to
headMatches(head, category) ==
  CASE category = "turnover" -> includes(head, "turnover") \/ includes(head, "sales")
    [] category = "cost" -> includes(head, "cost")
    [] category = "productivity" -> includes(head, "product") \/ includes(head, "productivity")
    [] category = "orders" -> includes(head, "order")
    [] category = "capacity" -> includes(head, "capacity") \/ includes(head, "cap")

\* ------------------------------------------------------------ state updaters
\* src/hello.jsx:44-50
deepCopyData(d) ==
  [turnover |-> d.turnover, cost |-> d.cost, productivity |-> d.productivity,
   orders |-> d.orders, capacity |-> d.capacity]

\* src/hello.jsx:179-183: the updater handed to setData
updateValue(prev, category, index, delta) ==
  LET copy == deepCopyData(prev)
      sum == QAdd(copy[category][index], QInt(delta))
  IN [copy EXCEPT ![category][index] = IF QLt(sum, QZero) THEN QZero ELSE sum]

\* variant of updatePairwise that writes the typed cell only
updatePairwiseOneCell(prev, i, j, value) ==
  [prev EXCEPT ![i][j] = orElse(parseFloat(value), QOne)]

\* src/hello.jsx:187-193: the updater handed to setPairwise
updatePairwise(prev, i, j, value) ==
  LET parsed == orElse(parseFloat(value), QOne)
      copy == [prev EXCEPT ![i][j] = parsed]
  IN IF i # j THEN [copy EXCEPT ![j][i] = QDiv(QOne, parsed)] ELSE copy

\* a CSV text is the sequence of its lines, a line the sequence of its
\* comma-separated cells (trimmed); a blank line has no cell
nonBlank(text) == SelectSeq(text, LAMBDA l : l # <<>>)

\* the last header cell that writes to the series, 0 when none does
RECURSIVE lastHead(_, _, _)
lastHead(headers, category, h) ==
  IF h = 0 THEN 0
  ELSE IF headMatches(headers[h], category) THEN h
  ELSE lastHead(headers, category, h - 1)

\* src/hello.jsx:203-219: the dataset built by reader.onload from the text and
\* the dataset of the closure; Null when lines[0] is undefined (TypeError)
csvData(text, closureData) ==
  LET lines == nonBlank(text)
  IN IF lines = <<>> THEN Null
     ELSE LET headers == [h \in 1..Len(lines[1]) |-> toLowerCase(lines[1][h])]
              rows == SubSeq(lines, 2, IF Len(lines) < 13 THEN Len(lines) ELSE 13)
              val(r, h) == orElse(IF h <= Len(rows[r]) THEN parseFloat(rows[r][h]) ELSE NaN, QZero)
              series(category) ==
                LET h == lastHead(headers, category, Len(headers))
                    old == closureData[category]
                IN IF h = 0 THEN old
                   ELSE [r \in 1..(IF Len(rows) > Len(old) THEN Len(rows) ELSE Len(old)) |->
                           IF r <= Len(rows) THEN val(r, h) ELSE old[r]]
          IN Some([turnover |-> series("turnover"), cost |-> series("cost"),
                   productivity |-> series("productivity"), orders |-> series("orders"),
                   capacity |-> series("capacity")])

\* ------------------------------------------------------------------- bounds
\* run requests, and dataset edits + imports + pairwise edits + AHP
\* computations, of one explored session
MaxRuns == 2
MaxInputOps == 1
\* pairwise edits + AHP computations of one explored matrix-editing session
MaxPairwiseOps == 2
\* periods of one explored call of the heuristic
MaxLen == 2
\* rows of the matrix of one explored call of the AHP engine
MaxOrder == 3
\* dataset edits + imports of one explored import session
MaxCsvOps == 3

\* coefficients and [lower, upper] pairs of the periods of an explored call
PeriodCoeffs == {-1, 1, 2}
PeriodBounds ==
  {<<QInt(0), QInt(3000000)>>, <<QInt(2600000), QInt(3000000)>>,
   <<QInt(3000000), QInt(3000000)>>, <<Q(5, 2), Q(5, 2)>>,
   <<QInt(3000000), QInt(2600000)>>, <<QInt(2400000), QInt(3400000)>>,
   <<QInt(3), Q(5, 2)>>}
Strategies == {"aggressive", "conservative", "balanced"}

\* the +/- buttons pressed (src/hello.jsx:430-436 pass -10 and 10; the call
\* site of productivity multiplies by 10, src/hello.jsx:533): series, month
\* index from 1, delta handed to updateValue
Clicks == {<<"cost", 1, -10>>, <<"productivity", 1, 10 * 10>>}

\* uploaded texts
CsvFiles ==
  {<< <<"Month", "Orders", "Capacity">>, <<"Jan", "2400000", "2900000">> >>}

\* buttons pressed and texts uploaded in an import session: no line at all,
\* a header alone, one data row, a cell that is no number, and 13 data rows
ImportClicks == {<<"cost", 1, -10>>, <<"cost", 2, 10>>}
ImportFiles ==
  {<<>>,
   << <<"Month", "Cost">> >>,
   << <<"Month", "Orders", "Capacity">>, <<"Jan", "2400000", "2900000">> >>,
   << <<"Month", "Cost">>, <<"Jan", "abc">>, <<"Feb", "12.5kg">> >>,
   [l \in 1..14 |-> IF l = 1 THEN <<"Month", "Cost">> ELSE <<"m", "2">>]}

\* cells edited and strings typed in a session, and in a matrix-editing session
SessionCells == {<<1, 2>>}
SessionTyped == {"2"}
AllCells == (1..3) \X (1..3)
Typed == {"2", "-2", "0.5", "0", ""}

SelectableTabs == {"input"}

\* matrices handed to the AHP engine: the reciprocal matrices of up to MaxOrder
\* rows with unit diagonal (the form updatePairwise keeps, src/hello.jsx:186-194)
\* over UpperEntries, and malformed variants of them
UpperEntries == {Q(1, 2), QInt(1), QInt(2), QInt(4)}
reciprocal(n, upper) ==
  [i \in 1..n |->
     [j \in 1..n |-> IF i = j THEN QOne
                     ELSE IF i < j THEN upper[<<i, j>>]
                     ELSE QDiv(QOne, upper[<<j, i>>])]]
PairwiseMatrices ==
  UNION {{reciprocal(n, upper) :
            upper \in [{c \in (1..n) \X (1..n) : c[1] < c[2]} -> UpperEntries]} :
         n \in 1..MaxOrder}

\* not square: the first row one entry short, or one entry long; not numeric:
\* an entry of the last row that is NaN (parseFloat('abc'), undefined)
shortRow(m) == [m EXCEPT ![1] = SubSeq(@, 1, Len(@) - 1)]
longRow(m) == [m EXCEPT ![1] = Append(@, QOne)]
nonNumeric(m) == [m EXCEPT ![Len(m)][1] = qNaN]
Matrices ==
  PairwiseMatrices \cup UNION {{shortRow(m), longRow(m), nonNumeric(m)} : m \in PairwiseMatrices}

\* the dataset d after an import of twelve rows of zeros for the series in
\* zeroed (src/hello.jsx:208-218)
zeroSeries(d, zeroed) ==
  [k \in DOMAIN d |-> IF k \in zeroed THEN [i \in 1..Len(d[k]) |-> QZero] ELSE d[k]]

\* the dataset d after an import of eight rows that gives Aug the capacity of
\* Jul: in the default dataset the two months then have the same orders and
\* the same capacity
sameRange(d) == [d EXCEPT !.capacity[8] = d.capacity[7]]

\* datasets on which runs are explored: the default one, the ones with series
\* of zeros, the one with two months of the same range, and the ones after an
\* import of a capacity column that is 3000000 in every month, or the orders
\* of the month
Datasets ==
  {zeroSeries(DEFAULT_DATA, zeroed) :
     zeroed \in SUBSET {"turnover", "cost", "productivity", "orders"}}
  \cup {sameRange(DEFAULT_DATA)}
  \cup {[DEFAULT_DATA EXCEPT !.capacity = [i \in 1..Len(@) |-> QInt(3000000)]],
        [DEFAULT_DATA EXCEPT !.capacity = DEFAULT_DATA.orders]}

\* where the delayed computation may fail: while reading the closure
\* (src/hello.jsx:259-260) or while computing the strategy (src/hello.jsx:266-328)
ThrowPoints == {"weights", "strategy"}

\* ------------------------------------------------------------------- state
VARIABLES
  data,                 \* useState(deepCopyData(DEFAULT_DATA))
  pairwise,             \* useState(DEFAULT_PAIRWISE)
  ahp,                  \* useState(null)
  results,              \* useState({turnover: null, ...})
  activeTab,            \* useState('input')
  processing,           \* useState(false)
  selectedParetoPoint,  \* useState(null)
  message,              \* useState('')
  alerts,               \* the texts shown by window.alert, oldest first
  timers,               \* the pending setTimeout callback with its closure, or Null
  reader,               \* the pending FileReader with its closure, or Null
  lpCall,               \* one direct call of solveLPHeuristic: arguments and return value
  ahpCall,              \* one direct call of computeAHPFromMatrix: argument and return value
  log                   \* history: counters and the snapshots the properties refer to

vars == <<data, pairwise, ahp, results, activeTab, processing, selectedParetoPoint,
          message, alerts, timers, reader, lpCall, ahpCall, log>>

NoMessage == [text |-> "", CR |-> Null, consistent |-> Null]

noCall == [coeffs |-> <<>>, lower |-> <<>>, upper |-> <<>>,
           options |-> [maximize |-> TRUE, strategy |-> "balanced"],
           returned |-> Null]
noAhpCall == [matrix |-> <<>>, returned |-> Null]

\* src/hello.jsx:145-156: the hooks other than data
InitControls ==
  /\ pairwise = DEFAULT_PAIRWISE
  /\ ahp = Null
  /\ results = [turnover |-> Null, cost |-> Null, productivity |-> Null, multiObjective |-> Null]
  /\ activeTab = "input"
  /\ processing = FALSE
  /\ selectedParetoPoint = Null
  /\ message = NoMessage
  /\ alerts = <<>>
  /\ timers = Null
  /\ reader = Null
  /\ log = [runs |-> 0, inputOps |-> 0, ahpCalls |-> 0, edits |-> 0,
            typed |-> <<>>, requested |-> Null, finished |-> Null, previous |-> Null]

InitSession ==
  /\ data = deepCopyData(DEFAULT_DATA)
  /\ InitControls

Init == InitSession /\ lpCall = noCall /\ ahpCall = noAhpCall

\* ------------------------------------------------------------------- actions
\* a +/- button of the input tab (src/hello.jsx:501, 517, 533)
UpdateValue(clicks, max) ==
  /\ activeTab = "input"
  /\ log.inputOps < max
  /\ \E c \in clicks : data' = updateValue(data, c[1], c[2], c[3])
  /\ log' = [log EXCEPT !.inputOps = @ + 1, !.edits = @ + 1]
  /\ UNCHANGED <<pairwise, ahp, results, activeTab, processing, selectedParetoPoint,
                 message, alerts, timers, reader, lpCall, ahpCall>>

\* src/hello.jsx:197-202, 226: a file is chosen; onload closes over this
\* render's data
HandleFileUpload(files, max) ==
  /\ reader = Null
  /\ log.inputOps < max
  /\ \E file \in files : reader' = Some([text |-> file, data |-> data])
  /\ log' = [log EXCEPT !.inputOps = @ + 1]
  /\ UNCHANGED <<data, pairwise, ahp, results, activeTab, processing, selectedParetoPoint,
                 message, alerts, timers, lpCall, ahpCall>>

\* src/hello.jsx:201-225: reader.onload
ReaderOnload ==
  /\ reader # Null
  /\ LET newData == csvData(Get(reader).text, Get(reader).data)
     IN IF newData # Null
        THEN /\ data' = Get(newData)
             /\ alerts' = Append(alerts, "CSV loaded successfully.")
        ELSE /\ data' = data
             /\ alerts' = Append(alerts, "CSV parse error")
  /\ reader' = Null
  /\ log' = [log EXCEPT !.edits = @ + 1]
  /\ UNCHANGED <<pairwise, ahp, results, activeTab, processing, selectedParetoPoint,
                 message, timers, lpCall, ahpCall>>

\* a cell of the pairwise table is typed into (src/hello.jsx:545-558)
UpdatePairwise(cells, typed, max) ==
  /\ activeTab = "input"
  /\ log.inputOps < max
  /\ \E c \in cells, value \in typed :
       /\ pairwise' = updatePairwise(pairwise, c[1], c[2], value)
       /\ log' = [log EXCEPT !.inputOps = @ + 1, !.edits = @ + 1,
                             !.typed = Append(@, <<c[1], c[2], value>>)]
  /\ UNCHANGED <<data, ahp, results, activeTab, processing, selectedParetoPoint,
                 message, alerts, timers, reader, lpCall, ahpCall>>

\* src/hello.jsx:164-175: the Calculate AHP button (src/hello.jsx:564); the
\* pairwise table is 3 x 3, so CR is finite
ComputeAHP(max) ==
  /\ activeTab = "input"
  /\ log.inputOps < max
  /\ LET matrix == [i \in 1..Len(pairwise) |->
                      [j \in 1..Len(pairwise[i]) |-> orOne(pairwise[i][j])]]
         res == computeAHPFromMatrix(matrix)
     IN /\ ahp' = Some(res)
        /\ message' = [text |-> "AHP weights computed",
                       CR |-> Some(toFixed(res.CR.v, 3)),
                       consistent |-> Some(RCmp(res.CR.v, RFromQ(Q(1, 10))) < 0)]
  /\ log' = [log EXCEPT !.inputOps = @ + 1, !.ahpCalls = @ + 1]
  /\ UNCHANGED <<data, pairwise, results, activeTab, processing, selectedParetoPoint,
                 alerts, timers, reader, lpCall, ahpCall>>

\* a tab of the navigation bar (src/hello.jsx:466-468)
SelectTab ==
  /\ \E tab \in SelectableTabs : activeTab' = tab
  /\ UNCHANGED <<data, pairwise, ahp, results, processing, selectedParetoPoint,
                 message, alerts, timers, reader, lpCall, ahpCall, log>>

\* src/hello.jsx:254-257: a run button (src/hello.jsx:582-591, disabled while
\* processing); the delayed callback closes over this render's data and ahp
RunOptimization ==
  /\ activeTab = "input"
  /\ ~processing
  /\ log.runs < MaxRuns
  /\ \E mode \in Modes :
       /\ timers' = Some([mode |-> mode, data |-> data, ahp |-> ahp])
       /\ log' = [log EXCEPT !.runs = @ + 1,
                             !.requested = Some([mode |-> mode, data |-> data,
                                                 pairwise |-> pairwise, ahp |-> ahp,
                                                 results |-> results,
                                                 ahpCalls |-> log.ahpCalls,
                                                 edits |-> log.edits])]
  /\ processing' = TRUE
  /\ message' = NoMessage
  /\ UNCHANGED <<data, pairwise, ahp, results, activeTab, selectedParetoPoint,
                 alerts, reader, lpCall, ahpCall>>

\* variant of closureData that reads the dataset of the latest render
currentData(closure, current) == current

\* src/hello.jsx:259-260: the dataset and the weights the callback reads
closureData(closure, current) == closure.data
closureAhp(closure, current) == closure.ahp
weightsOf(a) == IF a # Null THEN Get(a).weights ELSE fallbackWeights

\* variant of fallbackAhp that persists equal weights
equalWeightsAhp ==
  [weights |-> <<Q(1, 3), Q(1, 3), Q(1, 3)>>, lambdaMax |-> Fin(RZero),
   CI |-> Fin(RZero), CR |-> Fin(RZero)]

\* src/hello.jsx:261-264: setAhp of the fallback record when the closure has no ahp
fallbackAhp == [weights |-> fallbackWeights, lambdaMax |-> Fin(RZero),
                CI |-> Fin(RZero), CR |-> Fin(RZero)]
persistFallback(closure, current) ==
  IF closureAhp(closure, current) = Null THEN Some(fallbackAhp) ELSE current

\* variant of storeResult that keeps the written slot only
storeResultAlone(prev, mode, result) ==
  [k \in DOMAIN prev |-> IF k = mode THEN result ELSE Null]

\* variant of resultsAfterFailure that clears the slot of the failed run
clearSlot(prev, mode) == [prev EXCEPT ![mode] = Null]

\* src/hello.jsx:331: setResults(prev => ({ ...prev, [mode]: result }))
storeResult(prev, mode, result) == [prev EXCEPT ![mode] = result]

\* src/hello.jsx:348-351: what the catch block leaves in the result set
resultsAfterFailure(prev, mode) == prev

\* src/hello.jsx:337-344
paretoPoint(result) ==
  [name |-> "Multi-Objective (Pareto Optimal)",
   x |-> RDiv(result.turnoverVal, RInt(1000000)),
   y |-> RDiv(result.costVal, RInt(1000000)),
   z |-> RDiv(result.productivityVal, RInt(1000000)),
   weights |-> result.weights,
   improvements |-> result.improvements]

finish(outcome, mode, stored) ==
  [log EXCEPT !.finished = Some([mode |-> mode, outcome |-> outcome,
                                 at |-> Get(log.requested), result |-> stored,
                                 edits |-> log.edits, ahpCalls |-> log.ahpCalls]),
              !.previous = log.finished]

\* variant of Completes that leaves the processing flag set
CompletesStillProcessing(mode, result) ==
  /\ results' = storeResult(results, mode, result)
  /\ IF mode = "multiObjective"
     THEN /\ selectedParetoPoint' = Some(paretoPoint(Get(result)))
          /\ message' = message
     ELSE /\ selectedParetoPoint' = selectedParetoPoint
          /\ message' = [text |-> mode \o " optimization complete.",
                         CR |-> Null, consistent |-> Null]
  /\ log' = finish("stored", mode, result)
  /\ processing' = processing
  /\ activeTab' = "comparison"

\* src/hello.jsx:331-347: the setters that follow the computation
Completes(mode, result) ==
  /\ results' = storeResult(results, mode, result)
  /\ IF mode = "multiObjective"
     THEN /\ selectedParetoPoint' = Some(paretoPoint(Get(result)))
          /\ message' = message
     ELSE /\ selectedParetoPoint' = selectedParetoPoint
          /\ message' = [text |-> mode \o " optimization complete.",
                         CR |-> Null, consistent |-> Null]
  /\ log' = finish("stored", mode, result)
  /\ processing' = FALSE
  /\ activeTab' = "comparison"

\* src/hello.jsx:257-347: the timeout fires and the computation completes
TimeoutCallback ==
  /\ timers # Null
  /\ ahp' = persistFallback(Get(timers), ahp)
  /\ Completes(Get(timers).mode,
               strategyResult(Get(timers).mode, closureData(Get(timers), data),
                              weightsOf(closureAhp(Get(timers), ahp))))
  /\ timers' = Null
  /\ UNCHANGED <<data, pairwise, alerts, reader, lpCall, ahpCall>>

\* src/hello.jsx:257-264, 348-351: the timeout fires and the computation
\* throws; no dataset of this model makes it throw, the failure is an
\* environment fault at one of ThrowPoints
TimeoutCallbackThrows ==
  /\ timers # Null
  /\ \E point \in ThrowPoints :
       LET closure == Get(timers)
       IN /\ ahp' = IF point = "weights" THEN ahp ELSE persistFallback(closure, ahp)
          /\ results' = resultsAfterFailure(results, closure.mode)
          /\ log' = finish("failed", closure.mode, Null)
  /\ processing' = FALSE
  /\ alerts' = Append(alerts, "Optimization failed")
  /\ timers' = Null
  /\ UNCHANGED <<data, pairwise, activeTab, selectedParetoPoint, message, reader, lpCall, ahpCall>>

Next ==
  \/ UpdateValue(Clicks, MaxInputOps)
  \/ HandleFileUpload(CsvFiles, MaxInputOps)
  \/ ReaderOnload
  \/ UpdatePairwise(SessionCells, SessionTyped, MaxInputOps)
  \/ ComputeAHP(MaxInputOps)
  \/ SelectTab
  \/ RunOptimization
  \/ TimeoutCallback
  \/ TimeoutCallbackThrows

Spec == Init /\ [][Next]_vars

\* ------------------------------------------------ direct calls of the heuristic
InitLP ==
  /\ InitSession
  /\ ahpCall = noAhpCall
  /\ \E n \in 1..MaxLen :
       \E coeffs \in [1..n -> PeriodCoeffs], bounds \in [1..n -> PeriodBounds],
          maximize \in BOOLEAN, strategy \in Strategies :
         lpCall = [coeffs |-> [i \in 1..n |-> RInt(coeffs[i])],
                   lower |-> [i \in 1..n |-> bounds[i][1]],
                   upper |-> [i \in 1..n |-> bounds[i][2]],
                   options |-> [maximize |-> maximize, strategy |-> strategy],
                   returned |-> Null]

SolveLP ==
  /\ lpCall.returned = Null
  /\ lpCall' = [lpCall EXCEPT !.returned =
                  Some(solveLPHeuristic(lpCall.coeffs, lpCall.lower, lpCall.upper,
                                        lpCall.options))]
  /\ UNCHANGED <<data, pairwise, ahp, results, activeTab, processing, selectedParetoPoint,
                 message, alerts, timers, reader, ahpCall, log>>

NextLP == SolveLP

SpecLP == InitLP /\ [][NextLP]_vars

\* direct calls with arrays of unequal lengths: coeffs of n entries, lower and
\* upper of m entries
InitLPUnequal ==
  /\ InitSession
  /\ ahpCall = noAhpCall
  /\ \E n \in 1..MaxLen, m \in 1..MaxLen :
       /\ n # m
       /\ \E coeffs \in [1..n -> PeriodCoeffs], bounds \in [1..m -> PeriodBounds],
             maximize \in BOOLEAN, strategy \in Strategies :
            lpCall = [coeffs |-> [i \in 1..n |-> RInt(coeffs[i])],
                      lower |-> [i \in 1..m |-> bounds[i][1]],
                      upper |-> [i \in 1..m |-> bounds[i][2]],
                      options |-> [maximize |-> maximize, strategy |-> strategy],
                      returned |-> Null]

SpecLPUnequal == InitLPUnequal /\ [][NextLP]_vars

\* ------------------------------------------------------- import sessions
NextCSV ==
  \/ UpdateValue(ImportClicks, MaxCsvOps)
  \/ HandleFileUpload(ImportFiles, MaxCsvOps)
  \/ ReaderOnload

SpecCSV == Init /\ [][NextCSV]_vars

\* ------------------------------------------------ direct calls of the AHP engine
InitAHP ==
  /\ InitSession
  /\ lpCall = noCall
  /\ \E matrix \in Matrices : ahpCall = [matrix |-> matrix, returned |-> Null]

CallAHP ==
  /\ ahpCall.returned = Null
  /\ ahpCall' = [ahpCall EXCEPT !.returned = Some(computeAHPFromMatrix(ahpCall.matrix))]
  /\ UNCHANGED <<data, pairwise, ahp, results, activeTab, processing, selectedParetoPoint,
                 message, alerts, timers, reader, lpCall, log>>

NextAHP == CallAHP

SpecAHP == InitAHP /\ [][NextAHP]_vars

\* ------------------------------------------------ runs on imported datasets
InitRuns ==
  /\ data \in Datasets
  /\ InitControls
  /\ lpCall = noCall
  /\ ahpCall = noAhpCall

NextRuns ==
  \/ RunOptimization
  \/ TimeoutCallback

SpecRuns == InitRuns /\ [][NextRuns]_vars

\* --------------------------------------------- sessions with a fair timer
\* a timer set with setTimeout fires (src/hello.jsx:257, 352): the callback
\* runs, to its end or into its catch block
NextTimed ==
  \/ SelectTab
  \/ RunOptimization
  \/ TimeoutCallback
  \/ TimeoutCallbackThrows

TimerFires == WF_vars(TimeoutCallbackThrows \/ TimeoutCallback)

SpecTimed == Init /\ [][NextTimed]_vars /\ TimerFires

\* ------------------------------------------------- matrix-editing sessions
NextPW ==
  \/ UpdatePairwise(AllCells, Typed, MaxPairwiseOps)
  \/ ComputeAHP(MaxPairwiseOps)

SpecPW == Init /\ [][NextPW]_vars

\* ---------------------------------------------------------------- properties
Ordered(call) == \A i \in 1..Len(call.lower) : QLe(call.lower[i], call.upper[i])

RECURSIVE prefixSum(_, _)
prefixSum(x, i) == IF i = 0 THEN 0 ELSE x[i] + prefixSum(x, i - 1)

\* C1: for bounds with lower_i <= upper_i in every period, the allocation
\* returned by solveLPHeuristic satisfies lower_i <= allocation_i <= upper_i
\* in every period
C1_AllocationWithinBounds ==
  (lpCall.returned # Null /\ Ordered(lpCall)) =>
    \A i \in 1..Len(lpCall.coeffs) :
      /\ QLe(lpCall.lower[i], QInt(Get(lpCall.returned).solution[i]))
      /\ QLe(QInt(Get(lpCall.returned).solution[i]), lpCall.upper[i])

\* C2: for bounds with lower_i <= upper_i in every period, the running sum of
\* the returned allocation up to period i never exceeds cumCapacity[i]
C2_CumulativeWithinCeiling ==
  (lpCall.returned # Null /\ Ordered(lpCall)) =>
    \A i \in 1..Len(lpCall.coeffs) :
      prefixSum(Get(lpCall.returned).solution, i) <= cumCapacity[i]

\* a step in which the delayed computation of a run ends
RunEnds(outcome) ==
  /\ timers # Null
  /\ timers' = Null
  /\ Get(log'.finished).outcome = outcome

\* C3: a completed run of strategy k replaces results[k] only; the slots of
\* the other three strategies hold the values they held before the run
C3_OtherSlotsKept ==
  [][RunEnds("stored") =>
       /\ results'[Get(timers).mode] # Null
       /\ \A k \in Modes \ {Get(timers).mode} :
            /\ results'[k] = results[k]
            /\ results'[k] = Get(log.requested).results[k]]_vars

C3_Witness ==
  /\ log.finished # Null
  /\ log.previous # Null
  /\ Get(log.finished).outcome = "stored"
  /\ Get(log.previous).outcome = "stored"
  /\ Get(log.finished).mode # Get(log.previous).mode
  /\ results[Get(log.previous).mode] # Null
  /\ results[Get(log.previous).mode] = Get(log.previous).result
  /\ results[Get(log.finished).mode] = Get(log.finished).result

\* C4: when the computation of a run throws, the result set after the run is
\* the result set before the run was requested, the failure is reported by
\* an alert and the session goes on: processing is off, the dataset, the
\* matrix and the tab are as they were
C4_FailureKeepsResults ==
  [][RunEnds("failed") =>
       /\ results' = results
       /\ results' = Get(log.requested).results
       /\ alerts' = Append(alerts, "Optimization failed")
       /\ processing' = FALSE
       /\ <<data, pairwise, activeTab>>' = <<data, pairwise, activeTab>>]_vars

C4_Witness ==
  /\ log.finished # Null
  /\ Get(log.finished).outcome = "failed"
  /\ Get(log.finished).at.results[Get(log.finished).mode] # Null
  /\ results = Get(log.finished).at.results
  /\ ~processing
  /\ alerts # <<>>
  /\ alerts[Len(alerts)] = "Optimization failed"

\* C5: the fallback record is persisted as the AHP result only if no AHP
\* result has been computed; a result produced by computeAHP is never
\* replaced by the fallback record
C5_ComputedAhpKept ==
  [][(ahp' = Some(fallbackAhp) /\ ahp' # ahp) => ahp = Null]_vars

\* C6: the result stored by a run is the result computed from the dataset and
\* the AHP weights that were current when the run was requested, whatever was
\* edited, imported or recomputed during the delay
C6_ResultOfRequestSnapshot ==
  [][RunEnds("stored") =>
       results'[Get(timers).mode] =
         strategyResult(Get(timers).mode, Get(log.requested).data,
                        weightsOf(Get(log.requested).ahp))]_vars

C6_Witness ==
  /\ log.finished # Null
  /\ Get(log.finished).outcome = "stored"
  /\ Get(log.finished).at.edits < Get(log.finished).edits
  /\ Get(log.finished).at.data # data
  /\ activeTab = "comparison"
  /\ results[Get(log.finished).mode] = Get(log.finished).result

\* the run that ends in this step and the run that ended before it are runs
\* of the same strategy, both stored, requested with the same dataset and the
\* same pairwise matrix, no edit in between
SameStrategyTwice ==
  /\ RunEnds("stored")
  /\ log.finished # Null
  /\ Get(log.finished).outcome = "stored"
  /\ Get(log.finished).mode = Get(timers).mode
  /\ Get(log.finished).at.edits = Get(log.requested).edits
  /\ Get(log.finished).at.data = Get(log.requested).data
  /\ Get(log.finished).at.pairwise = Get(log.requested).pairwise

\* C7 as stated: running the same strategy twice in a row with unchanged
\* dataset and pairwise matrix stores the same result both times
C7_SameResultTwice ==
  [][SameStrategyTwice => results'[Get(timers).mode] = Get(log.finished).result]_vars

\* C7 amended: ... and with no computeAHP call between the two requests
C7_SameResultTwiceNoAhpBetween ==
  [][(SameStrategyTwice /\ Get(log.finished).at.ahpCalls = Get(log.requested).ahpCalls)
       => results'[Get(timers).mode] = Get(log.finished).result]_vars

C7_Witness ==
  /\ log.finished # Null
  /\ log.previous # Null
  /\ Get(log.finished).outcome = "stored"
  /\ Get(log.previous).outcome = "stored"
  /\ Get(log.finished).mode = "multiObjective"
  /\ Get(log.previous).mode = "multiObjective"
  /\ Get(log.previous).at.ahp = Null
  /\ Get(log.previous).at.edits = Get(log.finished).at.edits
  /\ Get(log.previous).at.ahpCalls = Get(log.finished).at.ahpCalls
  /\ Get(log.previous).result = Get(log.finished).result
  /\ Get(Get(log.finished).result).weights = Some(fallbackWeights)

\* C8: a stored AHP result has weights that are all non-negative and sum to 1
C8_WeightsNormalized ==
  ahp # Null =>
    /\ \A i \in 1..Len(Get(ahp).weights) : Get(ahp).weights[i].n >= 0
    /\ QSum(Get(ahp).weights) = QOne

\* C9: every diagonal entry of the pairwise matrix equals 1
C9_UnitDiagonal == \A i \in 1..Len(pairwise) : pairwise[i][i] = QOne

\* the cell and the string of the pairwise edit made in this step
PairwiseEdited == Len(log'.typed) = Len(log.typed) + 1
lastTyped(l) == l.typed[Len(l.typed)]

\* C10: updatePairwise(i, j, v) with i # j and a numeric non-zero v sets entry
\* (i, j) to v and entry (j, i) to 1 / v and leaves the other seven entries
\* unchanged; a non-numeric v is treated as 1 for both cells
C10_ReciprocalEdit ==
  [][(PairwiseEdited /\ lastTyped(log')[1] # lastTyped(log')[2]) =>
       LET i == lastTyped(log')[1]
           j == lastTyped(log')[2]
           v == parseFloat(lastTyped(log')[3])
       IN /\ (v.k = "fin" /\ v.v.n # 0) =>
               /\ pairwise'[i][j] = v.v
               /\ QMul(pairwise'[j][i], v.v) = QOne
          /\ v.k = "NaN" => (pairwise'[i][j] = QOne /\ pairwise'[j][i] = QOne)
          /\ \A c \in AllCells \ {<<i, j>>, <<j, i>>} :
               pairwise'[c[1]][c[2]] = pairwise[c[1]][c[2]]]_vars

C10_Witness ==
  /\ Len(log.typed) = 2
  /\ log.typed[1] = <<1, 2, "-2">>
  /\ log.typed[2] = <<3, 2, "">>
  /\ pairwise[1][2] = QInt(-2)
  /\ pairwise[2][1] = Q(-1, 2)
  /\ pairwise[3][2] = QOne
  /\ pairwise[2][3] = QOne
  /\ pairwise[1][3] = DEFAULT_PAIRWISE[1][3]

\* sum over the months of coefficient_i * x_i
weightedTotal(coefficient, x) ==
  RSum([i \in 1..Len(x) |-> RMul(RFromQ(coefficient[i]), RFromQ(x[i]))])

\* a multiObjective run has completed: its dataset and its stored result
MultiDone ==
  /\ log.finished # Null
  /\ Get(log.finished).mode = "multiObjective"
  /\ Get(log.finished).outcome = "stored"
MultiData == Get(log.finished).at.data
MultiImprovements == Get(Get(Get(log.finished).result).improvements)

\* the text is a decimal numeral, neither "NaN" nor an infinity
IsNumeral(fixed) == fixed.units >= 0

returnedWith(strategy) ==
  solveLPHeuristic(lpCall.coeffs, lpCall.lower, lpCall.upper,
                   [lpCall.options EXCEPT !.strategy = strategy])

StrictlyPositive(coeffs) == \A i \in 1..Len(coeffs) : coeffs[i].n.s > 0

\* C12: for strictly positive coefficients and bounds with lower_i <= upper_i,
\* the objective returned with maximize = true and strategy aggressive is at
\* least the objective returned with strategy conservative on the same inputs
C12_AggressiveAtLeastConservative ==
  (/\ lpCall.returned # Null
   /\ lpCall.options.maximize
   /\ lpCall.options.strategy = "aggressive"
   /\ StrictlyPositive(lpCall.coeffs)
   /\ Ordered(lpCall)) =>
    RCmp(Get(lpCall.returned).objective.v, returnedWith("conservative").objective.v) >= 0

UnequalLengths(call) ==
  Len(call.lower) # Len(call.coeffs) \/ Len(call.upper) # Len(call.coeffs)

\* C13: a call of solveLPHeuristic with coeffs, lower and upper of unequal
\* lengths fails with an error: it returns no allocation, truncated, padded or
\* containing NaN
C13_UnequalLengthsFail ==
  UnequalLengths(lpCall) => lpCall.returned = Null

Square(m) == \A i \in 1..Len(m) : Len(m[i]) = Len(m)
Numeric(m) == \A i \in 1..Len(m) : \A j \in 1..Len(m[i]) : ~isNaN(m[i][j])

\* C14: computeAHPFromMatrix given a matrix that is not square or has a
\* non-numeric entry fails with an error: it returns no result record
C14_MalformedMatrixFails ==
  ~(Square(ahpCall.matrix) /\ Numeric(ahpCall.matrix)) => ahpCall.returned = Null

\* a step of reader.onload, the data rows its text has (at most 12 are read),
\* and whether its parsing fails
Onload == reader # Null /\ reader' = Null
dataRows(text) ==
  IF Len(nonBlank(text)) > 13 THEN 12
  ELSE IF nonBlank(text) = <<>> THEN 0
  ELSE Len(nonBlank(text)) - 1
ParseFails(text) == nonBlank(text) = <<>>

LengthsKept == \A k \in DOMAIN data : Len(data[k]) = Len(MONTHS)
FailureKeepsData ==
  (Onload /\ ParseFails(Get(reader).text)) =>
    (data' = data /\ alerts' = Append(alerts, "CSV parse error"))
RowlessMonthsKept ==
  (Onload /\ ~ParseFails(Get(reader).text)) =>
    \A k \in DOMAIN data :
      \A m \in (dataRows(Get(reader).text) + 1)..Len(MONTHS) : data'[k][m] = data[k][m]

\* C15: an import whose parsing fails leaves the dataset as it was and reports
\* an error; all five series have 12 entries in every state reachable through
\* imports and edits; an import with fewer than 12 data rows leaves the months
\* without a row at the values they had before it
C15_ImportAtomic ==
  /\ []LengthsKept
  /\ [][FailureKeepsData]_vars
  /\ [][RowlessMonthsKept]_vars

QEq(a, b) == a.n * b.d = b.n * a.d

\* a_ij = w_i / w_j for some positive w: positive entries with a_ij * a_jk = a_ik
Consistent(m) ==
  /\ Square(m)
  /\ Numeric(m)
  /\ \A i, j \in 1..Len(m) : m[i][j].n > 0
  /\ \A i, j, k \in 1..Len(m) : QEq(QMul(m[i][j], m[j][k]), m[i][k])

IsFin(x, v) == x.k = "fin" /\ REq(x.v, v)

\* C16: for a perfectly consistent matrix computeAHPFromMatrix returns
\* lambdaMax = n, CI = 0 and CR = 0, with weights proportional to w
\* (weights_i / weights_j = a_ij)
C16_ConsistentMatrix ==
  (ahpCall.returned # Null /\ Consistent(ahpCall.matrix)) =>
    LET res == Get(ahpCall.returned)
        n == Len(ahpCall.matrix)
    IN /\ IsFin(res.lambdaMax, RInt(n))
       /\ IsFin(res.CI, RZero)
       /\ IsFin(res.CR, RZero)
       /\ \A i, j \in 1..n : QEq(res.weights[i], QMul(ahpCall.matrix[i][j], res.weights[j]))

\* a cost run has completed: its dataset and its stored allocation
CostDone ==
  /\ log.finished # Null
  /\ Get(log.finished).mode = "cost"
  /\ Get(log.finished).outcome = "stored"
CostData == Get(log.finished).at.data
CostSolution == Get(Get(log.finished).result).solution

\* the cumulative ceiling cannot clamp month i: the running total and the
\* whole capacity of the month fit under cumCapacity[i]
NoClamp(d, x, i) ==
  /\ QLe(d.orders[i], d.capacity[i])
  /\ QLe(QAdd(QInt(prefixSum(x, i - 1)), d.capacity[i]), QInt(cumCapacity[i]))

\* C17: in the cost strategy, of two months with the same orders and the same
\* capacity that the cumulative ceiling does not clamp, the month with the
\* larger cost receives an allocation no larger than the other
C17_CostAllocatesAgainstCost ==
  CostDone =>
    \A i, j \in 1..Len(CostSolution) :
      (/\ CostData.orders[i] = CostData.orders[j]
       /\ CostData.capacity[i] = CostData.capacity[j]
       /\ NoClamp(CostData, CostSolution, i)
       /\ NoClamp(CostData, CostSolution, j)
       /\ QLt(CostData.cost[j], CostData.cost[i]))
      => CostSolution[i] <= CostSolution[j]

\* lower_i + (upper_i - lower_i) * (1 - r_i) for period i of a call
invertedTarget(call, i) ==
  RAdd(RFromQ(call.lower[i]),
       RMul(RFromQ(QSub(call.upper[i], call.lower[i])),
            RSub(ROne, rankOf(call.coeffs[i], maxAbs(call.coeffs)))))

\* C18: with maximize = false the allocation returned by solveLPHeuristic is
\* the same for the strategies aggressive, conservative and balanced on the
\* same coeffs and bounds, and the pre-clamp target of each period is
\* lower_i + (upper_i - lower_i) * (1 - r_i) whatever the strategy
C18_MinimizeIgnoresStrategy ==
  (lpCall.returned # Null /\ ~lpCall.options.maximize) =>
    /\ \A strategy \in Strategies :
         returnedWith(strategy).solution = Get(lpCall.returned).solution
    /\ \A i \in 1..Len(lpCall.coeffs) :
         LET x == strategyTarget(lpCall.lower[i], lpCall.upper[i],
                                 rankOf(lpCall.coeffs[i], maxAbs(lpCall.coeffs)),
                                 lpCall.options)
         IN x.kind = "val" /\ REq(x.v, invertedTarget(lpCall, i))

\* a minimizing conservative call whose allocation is not the one of the
\* maximizing conservative call: the 0.15 fraction is not what was used
C18_Witness ==
  /\ lpCall.returned # Null
  /\ ~lpCall.options.maximize
  /\ lpCall.options.strategy = "conservative"
  /\ Ordered(lpCall)
  /\ Get(lpCall.returned).solution
       # solveLPHeuristic(lpCall.coeffs, lpCall.lower, lpCall.upper,
                          [maximize |-> TRUE, strategy |-> "conservative"]).solution

\* a run has completed and stored its result
RunStored == log.finished # Null /\ Get(log.finished).outcome = "stored"
StoredResult == Get(Get(log.finished).result)
StoredData == Get(log.finished).at.data

\* C19: for every strategy the stored result has turnoverVal = 1000 *
\* sum(turnover_i * x_i), costVal = sum(cost_i * x_i) and productivityVal =
\* sum(productivity_i * x_i) for its own allocation x and the dataset the run
\* used
C19_TotalsOfOwnAllocation ==
  RunStored =>
    /\ REq(StoredResult.turnoverVal,
           RMul(RInt(1000), weightedTotal(StoredData.turnover, Ints(StoredResult.solution))))
    /\ REq(StoredResult.costVal,
           weightedTotal(StoredData.cost, Ints(StoredResult.solution)))
    /\ REq(StoredResult.productivityVal,
           weightedTotal(StoredData.productivity, Ints(StoredResult.solution)))

\* a stored cost run on the default dataset: its cost total is positive
C19_Witness ==
  /\ RunStored
  /\ Get(log.finished).mode = "cost"
  /\ StoredResult.costVal.n.s > 0
  /\ StoredData = DEFAULT_DATA

Positive(m) == \A i \in 1..Len(m) : \A j \in 1..Len(m[i]) : ~isNaN(m[i][j]) /\ m[i][j].n > 0

\* C20: computeAHPFromMatrix on a 1 x 1 matrix returns CI = 0 and CR = 0, and
\* for a square matrix of positive entries with n in 1..5 the weights,
\* lambdaMax, CI and CR of the result are finite numbers
C20_FiniteFields ==
  (/\ ahpCall.returned # Null
   /\ Square(ahpCall.matrix)
   /\ Positive(ahpCall.matrix)
   /\ Len(ahpCall.matrix) \in 1..5) =>
    LET res == Get(ahpCall.returned)
    IN /\ \A i \in 1..Len(res.weights) : ~isNaN(res.weights[i])
       /\ res.lambdaMax.k = "fin"
       /\ res.CI.k = "fin"
       /\ res.CR.k = "fin"
       /\ Len(ahpCall.matrix) = 1 => (IsFin(res.CI, RZero) /\ IsFin(res.CR, RZero))

\* period i of the call has its upper bound below its lower bound
Inverted(call, i) == QLt(call.upper[i], call.lower[i])

UpperWins(call, i) == Get(call.returned).solution[i] = QRound(call.upper[i])

\* C21: in a period with upper_i < lower_i the allocation returned by
\* solveLPHeuristic is round(upper_i), for every strategy, maximize flag and
\* coefficient vector, and it is below the order requirement lower_i
C21_UpperBoundWins ==
  lpCall.returned # Null =>
    \A i \in 1..Len(lpCall.coeffs) :
      Inverted(lpCall, i) =>
        /\ UpperWins(lpCall, i)
        /\ QLt(QInt(Get(lpCall.returned).solution[i]), lpCall.lower[i])

\* a step in which a run request is accepted
RunAccepted == timers = Null /\ timers' # Null

\* a step in which the processing flag is cleared
ProcessingCleared == processing /\ ~processing'

\* C22: every accepted run request sets processing to true and is eventually
\* followed by processing being false again; the flag is cleared by a
\* computation that wrote its slot or by one that threw and reported an error
C22_ProcessingEnds ==
  /\ [][RunAccepted => processing']_vars
  /\ processing ~> ~processing
  /\ [][ProcessingCleared =>
          \/ RunEnds("stored") /\ results'[Get(timers).mode] # Null
          \/ RunEnds("failed") /\ alerts' = Append(alerts, "Optimization failed")]_vars

\* a second run request was accepted, its computation threw, and the flag is
\* clear again
C22_Witness ==
  /\ log.runs = 2
  /\ ~processing
  /\ log.finished # Null
  /\ Get(log.finished).outcome = "failed"
  /\ log.previous # Null
  /\ Get(log.previous).outcome = "stored"

\* every value of the dataset is a non-negative integer
NonNegativeIntegers(d) ==
  \A k \in DOMAIN d : \A i \in 1..Len(d[k]) : d[k][i].d = 1 /\ d[k][i].n >= 0

OrdersWithinCapacity(d) ==
  \A i \in 1..Len(d.orders) : QLe(d.orders[i], d.capacity[i])

\* the text of a toFixed shows a value above 0 ("Infinity" included); it
\* shows a value below 0 when it starts with "-"
PositiveText(fixed) == ~fixed.neg /\ (fixed.units > 0 \/ fixed = infFixed(1))
NegativeText(fixed) == fixed.neg

MultiSolution == Get(Get(log.finished).result).solution

\* C23: after a multiObjective run on a dataset of non-negative integers with
\* orders_i <= capacity_i in every month, every allocation_i is at least
\* orders_i, the cost improvement is not positive and the turnover and
\* productivity improvements are not negative
C23_ImprovementSigns ==
  (MultiDone /\ NonNegativeIntegers(MultiData) /\ OrdersWithinCapacity(MultiData)) =>
    /\ \A i \in 1..Len(MultiData.orders) : QLe(MultiData.orders[i], QInt(MultiSolution[i]))
    /\ ~PositiveText(MultiImprovements.cost)
    /\ ~NegativeText(MultiImprovements.turnover)
    /\ ~NegativeText(MultiImprovements.productivity)

\* a multiObjective run on such a dataset with positive orders that allocates
\* above the orders: the cost improvement is below 0 and the other two above
C23_Witness ==
  /\ MultiDone
  /\ NonNegativeIntegers(MultiData)
  /\ OrdersWithinCapacity(MultiData)
  /\ \E i \in 1..Len(MultiData.orders) :
       MultiData.orders[i].n > 0 /\ QLt(MultiData.orders[i], QInt(MultiSolution[i]))
  /\ NegativeText(MultiImprovements.cost) /\ MultiImprovements.cost.units > 0
  /\ PositiveText(MultiImprovements.turnover)
  /\ PositiveText(MultiImprovements.productivity)
====
